---- MODULE Spec2Model ----
(***************************************************************************)
(* Model of the audio enhancement pipeline of voicevox-enhancer:           *)
(* AudioProcessor.enhance_audio and its stages (src/audio/processor.py),   *)
(* and the windowed prosody effects of src/audio/effects.py.               *)
(*                                                                         *)
(* Samples are binary floating-point numbers.  The model keeps the shape   *)
(* of IEEE arithmetic (round to nearest, ties to even, gradual underflow)  *)
(* with a significand of Prec bits; a value v stands for v / 2^Frac.       *)
(***************************************************************************)
EXTENDS Integers, Sequences, FiniteSets, TLC

\* ---------------------------------------------------------------- bounds
Prec == 5          \* significand bits of the modelled floating point format
Frac == 7          \* the unit of a value is 2^-Frac
MaxNormLen == 2    \* longest waveform of the normalize_audio specification

\* ------------------------------------------------------ floating point
RECURSIVE Pow2(_)
Pow2(k) == IF k <= 0 THEN 1 ELSE 2 * Pow2(k - 1)

One == Pow2(Frac)                       \* the value 1.0

Abs(x) == IF x < 0 THEN -x ELSE x

TwoPrec == Pow2(Prec)

\* num/den (num >= 0, den > 0) rounded to the nearest integer, ties to even.
RoundHalfEven(num, den) ==
    LET q == num \div den
        r == num % den
    IN  IF 2 * r > den \/ (2 * r = den /\ q % 2 = 1) THEN q + 1 ELSE q

\* a/den (a >= 0, den > 0) rounded to a significand of Prec bits: below
\* 2^Prec the units are kept (gradual underflow), above it the last bits go.
RECURSIVE RoundTo(_, _)
RoundTo(a, den) ==
    IF a < den * TwoPrec THEN RoundHalfEven(a, den) ELSE 2 * RoundTo(a, 2 * den)

\* The floating point number nearest to num/den (den > 0), in units.
Fl(num, den) == IF num < 0 THEN -RoundTo(-num, den) ELSE RoundTo(num, den)

IsFloat(v) == Fl(v, 1) = v

\* x / y and x * y of two floating point numbers, as the hardware rounds them.
FDiv(x, y) == IF y < 0 THEN Fl(-x * One, -y) ELSE Fl(x * One, y)
FMul(x, y) == Fl(x * y, One)

\* The spacing of the floating point numbers at v (unit in the last place).
RECURSIVE Spacing(_, _)
Spacing(a, step) == IF a < step * TwoPrec THEN step ELSE Spacing(a, 2 * step)
Ulp(v) == Spacing(Abs(v), 1)

\* ------------------------------------------------------------ waveforms
\* A waveform is a sequence of floating point samples (a numpy array).

\* max(|w[lo]|, ..., |w[hi]|), 0 for an empty range.
RECURSIVE RangeMaxAbs(_, _, _)
RangeMaxAbs(w, lo, hi) ==
    IF lo > hi THEN 0
    ELSE IF lo = hi THEN Abs(w[lo])
    ELSE LET mid == (lo + hi) \div 2
             a == RangeMaxAbs(w, lo, mid)
             b == RangeMaxAbs(w, mid + 1, hi)
         IN  IF a > b THEN a ELSE b

\* Mutant: np.max(audio_data), the absolute value forgotten.
RECURSIVE RangeMax(_, _, _)
RangeMax(w, lo, hi) ==
    IF lo = hi THEN w[lo]
    ELSE LET mid == (lo + hi) \div 2
             a == RangeMax(w, lo, mid)
             b == RangeMax(w, mid + 1, hi)
         IN  IF a > b THEN a ELSE b

MaxSigned(w) == RangeMax(w, 1, Len(w))

\* np.max(np.abs(audio_data))
MaxAbs(w) == RangeMaxAbs(w, 1, Len(w))

\* The running sums w[lo], w[lo] + w[lo+1], ... of w[lo..hi].
RECURSIVE RunningSums(_, _, _)
RunningSums(w, lo, hi) ==
    IF lo > hi THEN <<>>
    ELSE IF lo = hi THEN <<w[lo]>>
    ELSE LET mid == (lo + hi) \div 2
             a == RunningSums(w, lo, mid)
             b == RunningSums(w, mid + 1, hi)
             t == a[Len(a)]
         IN  a \o [k \in 1..Len(b) |-> b[k] + t]

Min(a, b) == IF a < b THEN a ELSE b
Max(a, b) == IF a > b THEN a ELSE b

\* Parameter values (settings, levels, amounts) are counted in hundredths:
\* 5 is 0.05, 50 is 0.5.
Hundred == 100

\* x * (num / den) for a floating point x and a rational factor.
Scale(x, num, den) == Fl(x * num, den)

\* np.convolve(a, np.ones(window_size) / window_size, mode='same'): the moving
\* average of a over window_size samples, zeros beyond both ends.  As numpy
\* does, the outcome has max(len(a), window_size) entries.
MovingAverage(a, window_size) ==
    LET n == Len(a)
        m == Max(n, window_size)
        sums == RunningSums(a, 1, n)
        upto(k) == IF k < 1 THEN 0 ELSE IF k > n THEN sums[n] ELSE sums[k]
        \* entry k (from 1) of the full convolution sums a[k-window_size+1..k];
        \* 'same' keeps the m central entries of the n + window_size - 1
        first == ((Min(n, window_size) - 1) \div 2)
    IN  IF n = 0 THEN <<>>
        ELSE [k \in 1..m |->
                Fl(upto(k + first) - upto(k + first - window_size), window_size)]

\* sin(pi * num / den) for 0 <= num, den > 0: Bhaskara's rational form on each
\* half turn, whose error is below the precision of the modelled samples.
SinPi(num, den) ==
    LET h == num \div den
        f == num % den
        x == Fl(f * One, den)
        p == FMul(x, One - x)                   \* f(1-f), f the fraction of the half turn
        s == IF p = 0 THEN 0 ELSE FDiv(16 * p, 5 * One - 4 * p)
    IN  IF h % 2 = 0 THEN s ELSE -s
\* The literal 0.9 of the source, as the floating point format stores it.
TargetLevel == Fl(9 * One, 10)

\* What numpy gives for a division by zero (inf, nan, with a warning and no
\* exception): a value that is no sample.
NotFinite == 1000 * One

\* Mutant: no test for a zero peak; silence is divided by zero.
normalize_unguarded(audio, target_level) ==
    IF MaxAbs(audio) > 0
    THEN [k \in 1..Len(audio) |-> FMul(FDiv(audio[k], MaxAbs(audio)), target_level)]
    ELSE [k \in 1..Len(audio) |-> NotFinite]

\* Mutant: audio_data * target_level, the division by the peak forgotten.
normalize_undivided(audio, target_level) ==
    [k \in 1..Len(audio) |-> FMul(audio[k], target_level)]

\* AudioProcessor.normalize_audio
normalize_audio(audio, target_level) ==
    LET max_val == MaxAbs(audio)
    IN  IF max_val > 0
        THEN [k \in 1..Len(audio) |-> FMul(FDiv(audio[k], max_val), target_level)]
        ELSE audio

\* x + y of two floating point numbers.
FAdd(x, y) == Fl(x + y, 1)

\* numpy broadcasting of two one-dimensional arrays: equal lengths, or one of
\* them of length 1 (anything else raises ValueError).
BLen(a, b) == IF Len(a) = 1 THEN Len(b) ELSE Len(a)
At(a, k) == IF Len(a) = 1 THEN a[1] ELSE a[k]

\* audio[k-d], zero before the first sample.
Back(audio, k, d) == IF k - d < 1 THEN 0 ELSE audio[k - d]

\* ----------------------------------------------------------- the stages
\* 2**int(np.log2(n)): the largest power of two <= n (n >= 1).
RECURSIVE FloorPow2(_)
FloorPow2(n) == IF n < 2 THEN 1 ELSE 2 * FloorPow2(n \div 2)

\* Mutant: the FFT size is not capped.
n_fft_uncapped(n) == FloorPow2(n)

MaxFft == 2048
n_fft(n) == Min(MaxFft, FloorPow2(n))
fft_hop_length(n) == n_fft(n) \div 4

\* Mutant: istft without length=: the frames give hop * (n // hop) samples.
enhance_spectrum_unfixed(audio, enhancement_level) ==
    [k \in 1..(fft_hop_length(Len(audio)) * (Len(audio) \div fft_hop_length(Len(audio)))) |->
        Fl(audio[k] * 2 * Hundred
             + enhancement_level * (audio[k] - Back(audio, k, 1)), 2 * Hundred)]

\* AudioProcessor.enhance_spectrum.  The short-time Fourier analysis and
\* resynthesis are library code (librosa.stft, librosa.istft); what the model
\* keeps is what the call fixes: istft(length=len(audio_data)) returns as many
\* samples as it was given, the gain ramp 1 .. 1 + level leaves the signal as
\* it is at level 0 and raises its fast changes (first difference) otherwise.
enhance_spectrum(audio, enhancement_level) ==
    [k \in 1..Len(audio) |->
        Fl(audio[k] * 2 * Hundred
             + enhancement_level * (audio[k] - Back(audio, k, 1)), 2 * Hundred)]

\* formant_freqs, in the order the dictionary is walked.
formant_freqs == <<800, 1200, 300, 2500, 300, 900, 500, 1800, 500, 1000>>
freq_min(freq) == Max(freq - 50, 20)
freq_max(freq, sr) == Min(freq + 50, sr \div 2 - 1)

\* signal.butter raises unless 0 < Wn[0] < Wn[1] < 1, Wn = f / (sr / 2).
FilterRaises(freq, sr) ==
    ~ (0 < 2 * freq_min(freq) /\ freq_min(freq) < freq_max(freq, sr)
         /\ 2 * freq_max(freq, sr) < sr)

\* signal.butter(2, [freq_min / (sr/2), freq_max / (sr/2)], btype='band'):
\* library code.  The coefficients of a band are one figure here, its gain
\* in eighths, which differs from band to band.
butter(freq, sr) == 1 + freq \div 400

\* signal.lfilter(b, a, audio_data) of one band-pass filter: library code; a
\* linear filter of its input that passes neither the mean nor the fastest
\* alternation, of the input's length.
lfilter(b, audio) ==
    [k \in 1..Len(audio) |-> Scale(audio[k] - Back(audio, k, 2), b, 8)]

\* The band loop of enhance_voice_quality from band b on: every band filters
\* audio_data, and enhanced_audio accumulates.
RECURSIVE AddBands(_, _, _, _, _)
AddBands(audio, enhanced_audio, level, sr, b) ==
    IF b > Len(formant_freqs) THEN enhanced_audio
    ELSE IF FilterRaises(formant_freqs[b], sr)
         THEN AddBands(audio, enhanced_audio, level, sr, b + 1)
         ELSE LET filtered == lfilter(butter(formant_freqs[b], sr), audio)
                  sum == [k \in 1..Len(audio) |->
                            FAdd(enhanced_audio[k],
                                 Scale(filtered[k], level * 2, Hundred * 10))]
              IN  AddBands(audio, sum, level, sr, b + 1)

\* AudioProcessor.enhance_voice_quality
enhance_voice_quality(audio, level, sr) == AddBands(audio, audio, level, sr, 1)

\* The smoothing window of add_breathiness and add_natural_fluctuation.
window_size(cap, n) == Max(Min(cap, n \div 10), 2)

\* np.random.normal(0, 0.01, n) after the low-pass filter: a draw of the
\* process-wide random source, here one of a few noise shapes d.
breath_noise(d, n) ==
    [k \in 1..n |-> IF k % 4 = 1 THEN d ELSE IF k % 4 = 3 THEN -d ELSE 0]

\* AudioProcessor.add_breathiness, given the noise drawn.
add_breathiness(audio, breath_amount, d) ==
    LET n == Len(audio)
        envelope == [k \in 1..n |-> Abs(audio[k])]
        smoothed_env == MovingAverage(envelope, window_size(1000, n))
        noise == breath_noise(d, n)
        m == BLen(audio, smoothed_env)
    IN  [k \in 1..m |->
            FAdd(At(audio, k),
                 Scale(FMul(At(noise, k), At(smoothed_env, k)), breath_amount, Hundred))]

\* np.random.normal(1.0, fluctuation_rate * 0.05, n): a draw of the random
\* source around 1.0, d standard deviations away, the sign changing from
\* sample to sample.
fluctuation_field(fluctuation_rate, d, n) ==
    [k \in 1..n |->
        Fl(Hundred * 20 * One
             + (IF k % 2 = 1 THEN d ELSE -d) * fluctuation_rate * One, Hundred * 20)]

\* AudioProcessor.add_natural_fluctuation, given the noise drawn.
add_natural_fluctuation(audio, fluctuation_rate, d) ==
    LET n == Len(audio)
        fluctuation == fluctuation_field(fluctuation_rate, d, n)
        smoothed_fluctuation == MovingAverage(fluctuation, window_size(128, n))
        m == BLen(audio, smoothed_fluctuation)
    IN  [k \in 1..m |-> FMul(At(audio, k), At(smoothed_fluctuation, k))]

MinSpeedSamples == 1000

\* AudioProcessor.enhance_speed_variation: an amplitude modulation by
\* 1 + sin(linspace(0, 10 pi, n)) * variation_amount * 0.05.
enhance_speed_variation(audio, variation_amount) ==
    LET n == Len(audio)
        modulation(k) ==
            FAdd(One, Scale(SinPi(10 * (k - 1), n - 1), variation_amount * 5,
                            Hundred * Hundred))
    IN  IF n < MinSpeedSamples THEN audio
        ELSE [k \in 1..n |-> FMul(audio[k], modulation(k))]


MinSamples == 256
MinSegment == 256
\* Mutant: the segments are capped at 1024 samples.
MaxSegmentOfFft == MaxFft \div 2

MaxSegment == 2048

\* np.hanning(M): 0.5 - 0.5 cos(2 pi k / (M - 1)) = sin^2(pi k / (M - 1)).
hanning(M) ==
    IF M = 1 THEN <<One>>
    ELSE [k \in 1..M |-> LET s == SinPi(k - 1, M - 1) IN FMul(s, s)]

\* librosa.effects.pitch_shift(segment, ...): library code.  It stretches,
\* resamples and then fixes the length to the segment's (util.fix_length); the
\* model keeps the length and lets the samples move by one place.
pitch_shift(segment) == [k \in 1..Len(segment) |-> Back(segment, k, 1)]

\* What one loop pass of the pitch variation draws: a shift below the 0.01
\* threshold, a shift that pitch_shift carries out, a shift on which
\* pitch_shift raises.
ShiftDraws == {"below", "shifted", "raises"}

\* Mutant: a segment on which pitch_shift raised is left out (silence).
shifted_segment_dropped(segment, draw) ==
    IF draw = "shifted" THEN pitch_shift(segment)
    ELSE IF draw = "raises" THEN [k \in 1..Len(segment) |-> 0]
    ELSE segment

\* shifted_segment of one loop pass.
shifted_segment(segment, draw) ==
    IF draw = "shifted" THEN pitch_shift(segment) ELSE segment

\* result[i:i+L] += windowed_segment  (i counts from 0)
AddAt(buffer, i, piece) ==
    [k \in 1..Len(buffer) |->
        IF k > i /\ k <= i + Len(piece) THEN FAdd(buffer[k], piece[k - i])
        ELSE buffer[k]]

\* Mutant: the loop also takes the offset equal to the stop value.
InRangeInclusive(at, stop) == at <= stop

\* for i in range(0, stop, hop): the loop goes on while i is below stop.
InRange(at, stop) == at < stop

\* Mutant: the weights are divided by as they are.
FloorNothing(w) == w

\* weights[weights < 0.001] = 1.0
FloorWeights(w) == [k \in 1..Len(w) |-> IF w[k] * 1000 < One THEN One ELSE w[k]]

\* result / weights
Divide(r, w) ==
    [k \in 1..Len(r) |-> IF w[k] = 0 THEN NotFinite ELSE FDiv(r[k], w[k])]

\* Mutant: the buffers start as copies of the waveform.
copy_like(audio) == audio

\* Mutant: the buffers stop where the last full segment can start.
zeros_short(audio) == [k \in 1..(Len(audio) - 1) |-> 0]

zeros_like(audio) == [k \in 1..Len(audio) |-> 0]

\* A short record of a waveform for the call log: its length and a weighted
\* sum of its samples.
RECURSIVE WeightedSum(_, _, _)
WeightedSum(w, lo, hi) ==
    IF lo > hi THEN 0
    ELSE IF lo = hi THEN w[lo] * (1 + (lo % 5))
    ELSE LET mid == (lo + hi) \div 2
         IN  WeightedSum(w, lo, mid) + WeightedSum(w, mid + 1, hi)

Digest(w) == <<Len(w), WeightedSum(w, 1, Len(w))>>

\* settings.get(key, default)
Get(s, key, default) == IF key \in DOMAIN s THEN s[key] ELSE default

\* ------------------------------------------------------------------ state
VARIABLES
    pc,              \* the statement the call is at
    alone,           \* TRUE when a stage is called on its own, not by enhance_audio
    audio_data,      \* the caller's waveform (the array passed in)
    settings,        \* the parameter mapping passed in
    sample_rate,     \* self.sample_rate, or the sample_rate argument
    target_level,    \* normalize_audio's target_level argument
    enhanced,        \* the local variable enhanced: the running stage's argument
    returned,        \* the value handed back to the caller
    raised,          \* TRUE once an exception was raised (and, in enhance_audio, caught)
    calls,           \* the stages called so far: name, argument, return value
    variation,       \* variation_amount of the running prosody stage
    segment_length, hop_length, window,   \* locals of the pitch variation
    result, weights, \* its overlap-add buffers
    i,               \* its loop variable
    drawn,           \* what the latest loop pass drew from the random source
    output_pos,      \* where adjust_speed_variation writes its next segment
    offsets,         \* the offsets i the loop has taken segments at, in order
    divisor,         \* the weights as they were when the sum was divided
    band,            \* the band the loop of enhance_voice_quality is at
    enhanced_audio,  \* its accumulator
    failed,          \* the bands whose filter raised
    enhancement_level,  \* the level a stage called on its own is given
    magnitude,       \* one frame of the analysed magnitude spectrum
    freq_enhance,    \* the gain ramp of enhance_spectrum
    enhanced_magnitude, \* the frame handed to the resynthesis
    twin,            \* a second parameter mapping, for a second call
    twin_calls,      \* the stages the second call ran
    fft_size,        \* the local n_fft of enhance_spectrum
    parked           \* the frame of a second call while the first one runs

io == <<audio_data, settings, sample_rate, target_level>>
ola == <<variation, segment_length, hop_length, window, result, weights, i, drawn,
         output_pos, offsets, divisor>>
\* What belongs to the stages called on their own.
aside == <<band, enhanced_audio, failed, enhancement_level, magnitude,
           freq_enhance, enhanced_magnitude, twin, twin_calls,
                   fft_size, parked>>
vars == <<pc, alone, audio_data, settings, sample_rate, target_level, enhanced,
          returned, raised, calls, variation, segment_length, hop_length, window,
          result, weights, i, drawn, output_pos, offsets, divisor, band,
          enhanced_audio, failed, enhancement_level, magnitude, freq_enhance,
          enhanced_magnitude, twin, twin_calls,
                   fft_size, parked>>

\* The locals of enhance_audio read from settings.
spectrum_enhance == Get(settings, "spectrum_enhance", 50)
voice_quality == Get(settings, "voice_quality", 50)
fluctuation == Get(settings, "fluctuation", 30)
\* Mutant: breathiness is off unless the mapping asks for it.
breathiness_unset == Get(settings, "breathiness", 0)

breathiness == Get(settings, "breathiness", 20)
pitch_variation == Get(settings, "pitch_variation", 40)
speed_variation == Get(settings, "speed_variation", 30)

\* The 0.05 of the three gates, in hundredths.
Threshold == 5

NoOla ==
    /\ variation = 0 /\ segment_length = 0 /\ hop_length = 0
    /\ window = <<>> /\ result = <<>> /\ weights = <<>> /\ i = 0
    /\ drawn = "none" /\ output_pos = 0 /\ offsets = <<>> /\ divisor = <<>>

NoAside ==
    /\ band = 0 /\ enhanced_audio = <<>> /\ failed = {}
    /\ enhancement_level = 0
    /\ magnitude = <<>> /\ freq_enhance = <<>> /\ enhanced_magnitude = <<>>
    /\ twin = <<>> /\ twin_calls = <<>>
    /\ fft_size = 0 /\ parked = <<>>

\* The locals of a prosody stage go out of scope; what the loop drew, the
\* offsets it took and the weights it divided by stay on record.
DropOla ==
    /\ variation' = 0 /\ segment_length' = 0 /\ hop_length' = 0
    /\ window' = <<>> /\ result' = <<>> /\ weights' = <<>> /\ i' = 0
    /\ output_pos' = 0
    /\ UNCHANGED <<drawn, offsets>>

\* ---------------------------------------------------------- enhance_audio
\* Where enhance_audio goes after a stage: the three gated stages are entered
\* only above the threshold.
\* Mutant: enhance_audio is left before the normalization.
AfterSpeedReturns == "done"

AfterSpeed == "normalize_audio"
AfterPitch ==
    IF speed_variation > Threshold THEN "enhance_speed_variation" ELSE AfterSpeed
AfterFluctuation ==
    IF pitch_variation > Threshold THEN "enhance_pitch_variation" ELSE AfterPitch
\* Mutant: the breathiness gate lets the threshold itself through (>=).
AfterVoiceQualityInclusive ==
    IF breathiness >= Threshold THEN "add_breathiness" ELSE "add_natural_fluctuation"

AfterVoiceQuality ==
    IF breathiness > Threshold THEN "add_breathiness" ELSE "add_natural_fluctuation"

\* Mutant: the gate is off by one (len > 254).
AfterCopyOffByOne(n) ==
    IF n >= MinSamples - 1 THEN "enhance_spectrum" ELSE "normalize_audio"

\* The length gate of enhance_audio.
AfterCopy(n) == IF n >= MinSamples THEN "enhance_spectrum" ELSE "normalize_audio"

\* The parameter a stage is called with, besides the waveform.
LevelOf(stage) ==
    CASE stage = "enhance_spectrum" -> spectrum_enhance
      [] stage = "enhance_voice_quality" ->
            IF alone THEN enhancement_level ELSE voice_quality
      [] stage = "add_breathiness" -> breathiness
      [] stage = "add_natural_fluctuation" -> fluctuation
      [] stage = "enhance_pitch_variation" ->
            IF alone THEN variation ELSE pitch_variation
      [] stage = "enhance_speed_variation" -> speed_variation
      [] OTHER -> variation

\* Mutant: the stage is called and its return value dropped.
ReturnDiscarded(stage, out, next) ==
    /\ calls' = Append(calls, [stage |-> stage, arg |-> Digest(enhanced),
                               level |-> LevelOf(stage), ret |-> Digest(out)])
    /\ UNCHANGED enhanced
    /\ IF alone THEN pc' = "done" /\ returned' = out
                ELSE pc' = next /\ UNCHANGED returned

\* A stage called with enhanced returns out: enhanced = self.stage(enhanced, ..).
\* A stage called on its own hands out to its caller.
Return(stage, out, next) ==
    /\ calls' = Append(calls, [stage |-> stage, arg |-> Digest(enhanced),
                               level |-> LevelOf(stage), ret |-> Digest(out)])
    /\ enhanced' = out
    /\ IF alone THEN pc' = "done" /\ returned' = out
                ELSE pc' = next /\ UNCHANGED returned

\* Mutant: no check for the empty waveform; it enters the try block, np.max
\* of an empty array raises in normalize_audio and the except clause returns.
ReturnEmptyUnguarded ==
    /\ pc = "enhance_audio"
    /\ Len(audio_data) = 0
    /\ raised' = TRUE
    /\ returned' = audio_data
    /\ pc' = "done"
    /\ UNCHANGED <<alone, io, aside, enhanced, calls, ola>>

\* if len(audio_data) == 0: return audio_data
ReturnEmpty ==
    /\ pc = "enhance_audio"
    /\ Len(audio_data) = 0
    /\ returned' = audio_data
    /\ pc' = "done"
    /\ UNCHANGED <<alone, io, aside, enhanced, raised, calls, ola>>

\* enhanced = audio_data.copy(), and the length gate
Copy ==
    /\ pc = "enhance_audio"
    /\ Len(audio_data) # 0
    /\ enhanced' = audio_data
    /\ pc' = AfterCopy(Len(audio_data))
    /\ UNCHANGED <<alone, io, aside, returned, raised, calls, ola>>

Spectrum ==
    /\ pc = "enhance_spectrum"
    /\ Return("enhance_spectrum", enhance_spectrum(enhanced, spectrum_enhance),
              "enhance_voice_quality")
    /\ UNCHANGED <<alone, io, aside, raised, ola>>

\* Mutant: no copy is taken (l.30, l.98) and the bands accumulate in the
\* caller's array.
VoiceQualityOnCaller ==
    /\ pc = "enhance_voice_quality"
    /\ Return("enhance_voice_quality",
              enhance_voice_quality(enhanced, voice_quality, sample_rate),
              AfterVoiceQuality)
    /\ audio_data' = enhance_voice_quality(enhanced, voice_quality, sample_rate)
    /\ UNCHANGED <<alone, settings, sample_rate, target_level, aside, raised, ola>>

\* enhanced = self.enhance_voice_quality(enhanced, voice_quality): the stage
\* accumulates in a copy of its argument (l.98).
VoiceQuality ==
    /\ pc = "enhance_voice_quality"
    /\ Return("enhance_voice_quality",
              enhance_voice_quality(enhanced, voice_quality, sample_rate),
              AfterVoiceQuality)
    /\ UNCHANGED <<alone, io, aside, raised, ola>>

BreathDraws == {1, 2}

Breathiness ==
    /\ pc = "add_breathiness"
    /\ \E d \in BreathDraws :
         Return("add_breathiness", add_breathiness(enhanced, breathiness, d),
                "add_natural_fluctuation")
    /\ UNCHANGED <<alone, io, aside, raised, ola>>

FluctuationDraws == {-3, 3}

Fluctuation ==
    /\ pc = "add_natural_fluctuation"
    /\ \E d \in FluctuationDraws :
         Return("add_natural_fluctuation",
                add_natural_fluctuation(enhanced, fluctuation, d), AfterFluctuation)
    /\ UNCHANGED <<alone, io, aside, raised, ola>>

\* enhance_pitch_variation up to its loop: the stage is left at once when the
\* segment would be shorter than 256 samples.
PitchBegin ==
    /\ pc = "enhance_pitch_variation"
    /\ LET L == Min(MaxSegment, Len(enhanced) \div 4)
       IN  IF L < MinSegment
           THEN /\ Return("enhance_pitch_variation", enhanced, AfterPitch)
                /\ UNCHANGED ola
           ELSE /\ segment_length' = L
                /\ hop_length' = L \div 2
                /\ result' = zeros_like(enhanced)
                /\ weights' = zeros_like(enhanced)
                /\ window' = hanning(L)
                /\ i' = 0
                /\ drawn' = "none"
                /\ offsets' = <<>>
                /\ divisor' = <<>>
                /\ UNCHANGED output_pos
                /\ variation' = IF alone THEN variation ELSE pitch_variation
                /\ pc' = "pitch_loop"
                /\ UNCHANGED <<enhanced, returned, calls>>
    /\ UNCHANGED <<alone, io, aside, raised>>

\* The draws the random source can give: np.random.normal(0, 0) is always 0.
DrawsOf(v) == IF v > 0 THEN ShiftDraws ELSE {"below"}

\* One pass of the loop over range(0, len(audio_data) - segment_length, hop_length).
OverlapAdd(draw) ==
    LET segment == SubSeq(enhanced, i + 1, i + segment_length)
        shifted == shifted_segment(segment, draw)
        windowed_segment == [k \in 1..segment_length |-> FMul(shifted[k], window[k])]
    IN  /\ result' = AddAt(result, i, windowed_segment)
        /\ weights' = AddAt(weights, i, window)
        /\ i' = i + hop_length
        /\ drawn' = draw
        /\ offsets' = Append(offsets, i)

PitchSegment ==
    /\ pc = "pitch_loop"
    /\ InRange(i, Len(enhanced) - segment_length)
    /\ \E draw \in DrawsOf(variation) : OverlapAdd(draw)
    /\ UNCHANGED <<pc, alone, io, aside, enhanced, returned, raised, calls, variation,
                   segment_length, hop_length, window, output_pos, divisor>>

\* After the loop: the weights are floored and divide the sum.
PitchEnd ==
    /\ pc = "pitch_loop"
    /\ ~ InRange(i, Len(enhanced) - segment_length)
    /\ Return("enhance_pitch_variation", Divide(result, FloorWeights(weights)),
              AfterPitch)
    /\ divisor' = FloorWeights(weights)
    /\ DropOla
    /\ UNCHANGED <<alone, io, aside, raised>>

Speed ==
    /\ pc = "enhance_speed_variation"
    /\ Return("enhance_speed_variation",
              enhance_speed_variation(enhanced, speed_variation), AfterSpeed)
    /\ UNCHANGED <<alone, io, aside, raised, ola>>

\* enhanced = self.normalize_audio(enhanced); return enhanced
Normalize ==
    /\ pc = "normalize_audio"
    /\ LET out == normalize_audio(enhanced, TargetLevel)
       IN  /\ calls' = Append(calls, [stage |-> "normalize_audio",
                                      arg |-> Digest(enhanced), level |-> TargetLevel,
                                      ret |-> Digest(out)])
           /\ enhanced' = out
           /\ returned' = out
    /\ pc' = "done"
    /\ UNCHANGED <<alone, io, aside, raised, ola>>

\* The statements inside the try block of enhance_audio.
TryBlock == {"enhance_spectrum", "enhance_voice_quality", "add_breathiness",
             "add_natural_fluctuation", "enhance_pitch_variation", "pitch_loop",
             "enhance_speed_variation", "normalize_audio"}

\* Mutant: the except clause hands back the partly processed waveform.
ExceptReturnPartial == enhanced

\* What the except clause returns.
ExceptReturn == audio_data

\* except Exception: a stage raises (a library error, an allocation that
\* fails), the clause prints the error and returns.
Except ==
    /\ pc \in TryBlock
    /\ ~ alone
    /\ raised' = TRUE
    /\ returned' = ExceptReturn
    /\ pc' = "done"
    /\ DropOla
    /\ UNCHANGED <<alone, io, aside, enhanced, calls, divisor>>

\* ------------------------------------------------------ the inputs
\* A waveform of n samples that repeats the pattern pat.
Wave(n, pat) == [k \in 1..n |-> pat[((k - 1) % Len(pat)) + 1]]

Silence == <<0>>
Voice == <<One \div 2, -One, One \div 4, 0, -(One \div 8)>>
Quiet == <<One \div 16, One \div 8, -(One \div 16)>>

ShortLens == {1, 2, 3, 255}
MidLens == {256, 257, 1000}
LongLens == {1024}

ShortWaves ==
    {<<>>} \cup {Wave(n, pat) : n \in ShortLens, pat \in {Silence, Voice, Quiet}}
MidWaves == {Wave(n, Voice) : n \in MidLens} \cup {Wave(256, Silence)}
LongWaves == {Wave(n, Voice) : n \in LongLens}

\* Every key given: the gated three at, below and above the threshold.
GateValues == {0, Threshold, Threshold + 1}
FullSettings ==
    {[spectrum_enhance |-> a, voice_quality |-> a, fluctuation |-> a,
      breathiness |-> b, pitch_variation |-> p, speed_variation |-> v] :
        a \in {0, 50}, b \in GateValues, p \in GateValues, v \in GateValues}

\* Keys left out, and a key enhance_audio does not know.
PartialSettings ==
    {<<>>, [breathiness |-> 0], [pitch_variation |-> 0, volume |-> 80]}

LongSettings ==
    {s \in FullSettings : /\ s.spectrum_enhance = 50
                          /\ s.breathiness # Threshold
                          /\ s.pitch_variation # Threshold
                          /\ s.speed_variation # Threshold}

Inputs ==
    ((ShortWaves \cup MidWaves) \X (FullSettings \cup PartialSettings))
        \cup (LongWaves \X LongSettings)

Init ==
    /\ pc = "enhance_audio"
    /\ alone = FALSE
    /\ \E in \in Inputs : audio_data = in[1] /\ settings = in[2]
    /\ sample_rate = 24000
    /\ target_level = TargetLevel
    /\ enhanced = <<>>
    /\ returned = <<>>
    /\ raised = FALSE
    /\ calls = <<>>
    /\ NoOla
    /\ NoAside

Next ==
    \/ ReturnEmpty \/ Copy \/ Spectrum \/ VoiceQuality \/ Breathiness
    \/ Fluctuation \/ PitchBegin \/ PitchSegment \/ PitchEnd \/ Speed
    \/ Normalize \/ Except

Spec == Init /\ [][Next]_vars

\* ------------------------------------- the spectral gain, on its own
\* A parameter value given in hundredths, as the floating point format
\* stores it.
Level(hundredths) == Fl(hundredths * One, Hundred)

\* magnitude.shape[0]: the bins of a transform of n_fft points.
bins(n) == 1 + n_fft(n) \div 2

\* Mutant: np.linspace(start, stop, num, endpoint=False): num steps up to
\* stop, the last value one step short of it.
linspace_open(start, stop, num) ==
    [k \in 1..num |-> Fl(start * num + Fl((k - 1) * Fl(stop - start, 1), 1), 1) \div num]

\* np.linspace(start, stop, num) for num >= 2, as numpy computes it:
\* step = (stop - start) / (num - 1), y = arange(num) * step + start, and
\* the last value set to stop.  The step and the products are held in units
\* of 1 / (num - 1), where the division is exact.
linspace(start, stop, num) ==
    LET div == num - 1
        delta == Fl(stop - start, 1)
        step == Fl(delta, 1)
    IN  [k \in 1..num |->
            IF k = num THEN stop
            ELSE Fl(start * div + Fl((k - 1) * step, 1), 1) \div div]

\* enhance_spectrum between the analysis and the resynthesis: the gain ramp
\* and the magnitudes of one frame multiplied by it, bin by bin.
Ramp ==
    /\ pc = "enhance_spectrum" /\ alone
    /\ freq_enhance' = linspace(One, FAdd(One, Level(enhancement_level)),
                                Len(magnitude))
    /\ enhanced_magnitude' =
          LET gain == linspace(One, FAdd(One, Level(enhancement_level)),
                               Len(magnitude))
          IN  [b \in 1..Len(magnitude) |-> FMul(magnitude[b], gain[b])]
    /\ pc' = "istft"
    /\ UNCHANGED <<alone, io, enhanced, returned, raised, calls, ola, band,
                   enhanced_audio, failed, enhancement_level, magnitude, twin,
                   twin_calls, fft_size, parked>>

\* The resynthesis and the return.
Resynthesize ==
    /\ pc = "istft"
    /\ returned' = enhance_spectrum(enhanced, enhancement_level)
    /\ pc' = "done"
    /\ UNCHANGED <<alone, io, enhanced, raised, calls, ola, aside>>

\* Waveforms analysed with 4, 256 and 2048 points, every level from 0 to 1
\* in hundredths, and a frame of magnitudes out of the analysis.
RampLens == {5, 300, 2500}
RampInit ==
    /\ pc = "enhance_spectrum"
    /\ alone = TRUE
    /\ audio_data \in {Wave(n, Voice) : n \in RampLens}
    /\ enhanced = audio_data
    /\ enhancement_level \in 0..Hundred
    /\ magnitude = [b \in 1..bins(Len(audio_data)) |-> Abs(Voice[((b - 1) % Len(Voice)) + 1])]
    /\ freq_enhance = <<>> /\ enhanced_magnitude = <<>>
    /\ settings = <<>>
    /\ sample_rate = 24000
    /\ target_level = TargetLevel
    /\ returned = <<>>
    /\ raised = FALSE
    /\ calls = <<>>
    /\ NoOla
    /\ band = 0 /\ enhanced_audio = <<>> /\ failed = {}
    /\ twin = <<>> /\ twin_calls = <<>>
    /\ fft_size = 0 /\ parked = <<>>

RampNext == Ramp \/ Resynthesize

SpecRamp == RampInit /\ [][RampNext]_vars

\* --------------------------------------- the formant bands, on their own
\* enhance_voice_quality called on its own, one pass of its loop at a time.
BandsBegin ==
    /\ pc = "enhance_voice_quality" /\ alone
    /\ enhanced_audio' = enhanced
    /\ band' = 1
    /\ failed' = {}
    /\ pc' = "band_loop"
    /\ UNCHANGED <<alone, io, enhanced, returned, raised, calls, ola,
                   enhancement_level, magnitude, freq_enhance, enhanced_magnitude,
                   twin, twin_calls,
                   fft_size, parked>>

\* Mutant: one try around the whole loop: a band that raises ends it.
AfterRaiseEndsLoop(b) == Len(formant_freqs) + 1

\* except Exception: print, and the loop goes on with the next band.
AfterRaise(b) == b + 1

\* Whether applying the filter of a band raises (lfilter, or the += into the
\* accumulator) is the library's matter: either can happen.
ApplyDraws == {"applies", "raises"}

\* Mutant: the band's filter is applied to the accumulator, not to audio_data.
BandOnAccumulator ==
    /\ pc = "band_loop"
    /\ band <= Len(formant_freqs)
    /\ \E draw \in ApplyDraws :
         IF FilterRaises(formant_freqs[band], sample_rate) \/ draw = "raises"
         THEN /\ failed' = failed \cup {band}
              /\ band' = AfterRaise(band)
              /\ UNCHANGED enhanced_audio
         ELSE /\ enhanced_audio' =
                    LET filtered == lfilter(butter(formant_freqs[band], sample_rate),
                                            enhanced_audio)
                    IN
                    [k \in 1..Len(enhanced) |->
                        FAdd(enhanced_audio[k],
                             Scale(filtered[k], enhancement_level * 2,
                                   Hundred * 10))]
              /\ band' = band + 1
              /\ UNCHANGED failed
    /\ UNCHANGED <<pc, alone, io, enhanced, returned, raised, calls, ola,
                   enhancement_level, magnitude, freq_enhance, enhanced_magnitude,
                   twin, twin_calls,
                   fft_size, parked>>

\* One pass of the loop: the band's filter is built and applied to
\* audio_data and the outcome added to the accumulator, or something raises
\* and the except clause of the band runs.
Band ==
    /\ pc = "band_loop"
    /\ band <= Len(formant_freqs)
    /\ \E draw \in ApplyDraws :
         IF FilterRaises(formant_freqs[band], sample_rate) \/ draw = "raises"
         THEN /\ failed' = failed \cup {band}
              /\ band' = AfterRaise(band)
              /\ UNCHANGED enhanced_audio
         ELSE /\ enhanced_audio' =
                    LET filtered == lfilter(butter(formant_freqs[band], sample_rate),
                                            enhanced)
                    IN
                    [k \in 1..Len(enhanced) |->
                        FAdd(enhanced_audio[k],
                             Scale(filtered[k], enhancement_level * 2,
                                   Hundred * 10))]
              /\ band' = band + 1
              /\ UNCHANGED failed
    /\ UNCHANGED <<pc, alone, io, enhanced, returned, raised, calls, ola,
                   enhancement_level, magnitude, freq_enhance, enhanced_magnitude,
                   twin, twin_calls,
                   fft_size, parked>>

\* return enhanced_audio
BandsEnd ==
    /\ pc = "band_loop"
    /\ band > Len(formant_freqs)
    /\ Return("enhance_voice_quality", enhanced_audio, "done")
    /\ UNCHANGED <<alone, io, raised, ola, aside>>

\* Short waveforms, a sample rate at which every band can be built and one
\* at which the bands above 1000 Hz cannot.
BandLens == {1, 8}
BandRates == {2000, 24000}

BandsInit ==
    /\ pc = "enhance_voice_quality"
    /\ alone = TRUE
    /\ audio_data \in {Wave(n, Voice) : n \in BandLens}
    /\ enhanced = audio_data
    /\ sample_rate \in BandRates
    /\ enhancement_level \in {0, 50}
    /\ settings = <<>>
    /\ target_level = TargetLevel
    /\ returned = <<>>
    /\ raised = FALSE
    /\ calls = <<>>
    /\ NoOla
    /\ band = 0 /\ enhanced_audio = <<>> /\ failed = {}
    /\ magnitude = <<>> /\ freq_enhance = <<>> /\ enhanced_magnitude = <<>>
    /\ twin = <<>> /\ twin_calls = <<>>
    /\ fft_size = 0 /\ parked = <<>>

BandsNext == BandsBegin \/ Band \/ BandsEnd

SpecBands == BandsInit /\ [][BandsNext]_vars

\* ------------------------- two calls of enhance_audio, one processor
\* The frame of a call of enhance_audio: its arguments and its locals.
Frame ==
    [pc |-> pc, audio_data |-> audio_data, settings |-> settings,
     enhanced |-> enhanced, returned |-> returned, raised |-> raised,
     calls |-> calls]

\* Mutant: enhanced is kept on the processor (self.enhanced), not in the frame.
SwitchSharingEnhanced ==
    /\ parked # <<>>
    /\ parked' = Frame
    /\ pc' = parked.pc
    /\ audio_data' = parked.audio_data
    /\ settings' = parked.settings
    /\ returned' = parked.returned
    /\ raised' = parked.raised
    /\ calls' = parked.calls
    /\ UNCHANGED <<alone, sample_rate, target_level, enhanced, ola, band,
                   enhanced_audio, failed, enhancement_level, magnitude,
                   freq_enhance, enhanced_magnitude, twin, twin_calls, fft_size>>

\* The scheduler takes the running call off the processor and lets the other
\* one go on: each call has its own arguments and locals, the processor
\* (self.sample_rate) is the same for both.
Switch ==
    /\ parked # <<>>
    /\ parked' = Frame
    /\ pc' = parked.pc
    /\ audio_data' = parked.audio_data
    /\ settings' = parked.settings
    /\ enhanced' = parked.enhanced
    /\ returned' = parked.returned
    /\ raised' = parked.raised
    /\ calls' = parked.calls
    /\ UNCHANGED <<alone, sample_rate, target_level, ola, band,
                   enhanced_audio, failed, enhancement_level, magnitude,
                   freq_enhance, enhanced_magnitude, twin, twin_calls, fft_size>>

\* Two calls on independent waveforms, each with its own parameter mapping;
\* the waveforms are too short for the pitch variation to enter its loop.
PairSettings == {<<>>, [breathiness |-> 0, speed_variation |-> 0]}
PairInputs ==
    {<<Wave(0, Voice), <<>> >>, <<Wave(300, Voice), <<>> >>,
     <<Wave(256, Quiet), [breathiness |-> 0, speed_variation |-> 0]>>}
OtherInputs ==
    {<<Wave(3, Quiet), <<>> >>} \cup ({Wave(256, Voice)} \X PairSettings)

PairInit ==
    /\ pc = "enhance_audio"
    /\ alone = FALSE
    /\ \E in \in PairInputs : audio_data = in[1] /\ settings = in[2]
    /\ sample_rate = 24000
    /\ target_level = TargetLevel
    /\ enhanced = <<>>
    /\ returned = <<>>
    /\ raised = FALSE
    /\ calls = <<>>
    /\ NoOla
    /\ band = 0 /\ enhanced_audio = <<>> /\ failed = {}
    /\ enhancement_level = 0
    /\ magnitude = <<>> /\ freq_enhance = <<>> /\ enhanced_magnitude = <<>>
    /\ twin = <<>> /\ twin_calls = <<>>
    /\ fft_size = 0
    /\ \E in \in OtherInputs :
         parked = [pc |-> "enhance_audio", audio_data |-> in[1],
                   settings |-> in[2], enhanced |-> <<>>, returned |-> <<>>,
                   raised |-> FALSE, calls |-> <<>>]

PairNext ==
    \/ ReturnEmpty \/ Copy \/ Spectrum \/ VoiceQuality \/ Breathiness
    \/ Fluctuation \/ PitchBegin \/ Speed \/ Normalize \/ Except \/ Switch

SpecPair == PairInit /\ [][PairNext]_vars

\* ------------------- add_breathiness and add_natural_fluctuation, on their own
\* Waveforms from one sample on, around the lengths at which the smoothing
\* window leaves its floor of 2.
SmoothLens == {1, 2, 3, 9, 10, 19, 20, 29, 30, 31, 40, 300}

SmoothInit ==
    /\ pc \in {"add_breathiness", "add_natural_fluctuation"}
    /\ alone = TRUE
    /\ audio_data \in {Wave(n, pat) : n \in SmoothLens, pat \in {Voice, Quiet}}
    /\ enhanced = audio_data
    /\ settings \in {<<>>, [breathiness |-> Hundred, fluctuation |-> Hundred]}
    /\ sample_rate = 24000
    /\ target_level = TargetLevel
    /\ returned = <<>>
    /\ raised = FALSE
    /\ calls = <<>>
    /\ NoOla
    /\ NoAside

SmoothNext == Breathiness \/ Fluctuation

SpecSmooth == SmoothInit /\ [][SmoothNext]_vars

\* --------------------------- the FFT size of enhance_spectrum, on its own
\* src/audio_player.py holds a second AudioProcessor whose enhance_spectrum
\* caps the FFT size at 1024.
PlayerMaxFft == 1024
player_n_fft(n) == Min(PlayerMaxFft, FloorPow2(n))

\* The first two statements of enhance_spectrum: n_fft and hop_length.
FftSize ==
    /\ pc = "n_fft"
    /\ fft_size' = n_fft(Len(enhanced))
    /\ hop_length' = fft_size' \div 4
    /\ pc' = "stft"
    /\ UNCHANGED <<alone, io, enhanced, returned, raised, calls, variation,
                   segment_length, window, result, weights, i, drawn, output_pos,
                   offsets, divisor, band, enhanced_audio, failed,
                   enhancement_level, magnitude, freq_enhance, enhanced_magnitude,
                   twin, twin_calls, parked>>

\* The same two statements of the enhance_spectrum of audio_player.py.
PlayerFftSize ==
    /\ pc = "player_n_fft"
    /\ fft_size' = player_n_fft(Len(enhanced))
    /\ hop_length' = fft_size' \div 4
    /\ pc' = "player_stft"
    /\ UNCHANGED <<alone, io, enhanced, returned, raised, calls, variation,
                   segment_length, window, result, weights, i, drawn, output_pos,
                   offsets, divisor, band, enhanced_audio, failed,
                   enhancement_level, magnitude, freq_enhance, enhanced_magnitude,
                   twin, twin_calls, parked>>

\* Waveform lengths from one sample on, and around the powers of two and
\* the two caps.
FftLens ==
    (1..40) \cup {255, 256, 257, 1023, 1024, 1025, 2047, 2048, 2049, 4095, 4096, 5000}

FftInit ==
    /\ pc \in {"n_fft", "player_n_fft"}
    /\ alone = TRUE
    /\ audio_data \in {Wave(n, Voice) : n \in FftLens}
    /\ enhanced = audio_data
    /\ sample_rate = 24000
    /\ settings = <<>>
    /\ target_level = TargetLevel
    /\ returned = <<>>
    /\ raised = FALSE
    /\ calls = <<>>
    /\ NoOla
    /\ NoAside

FftNext == FftSize \/ PlayerFftSize

SpecFft == FftInit /\ [][FftNext]_vars

\* ------------------------------------------- enhance_audio on silence
\* Ten thousand samples of silence enhanced with the default parameters, and
\* shorter silences with a few parameter mappings.
SilenceLen == 10000
SilenceInputs ==
    ({Wave(SilenceLen, Silence)} \X {<<>>})
        \cup ({Wave(n, Silence) : n \in {0, 3, 256, 1024}}
                \X (PartialSettings \cup {[breathiness |-> Hundred,
                                           fluctuation |-> Hundred]}))

SilenceInit ==
    /\ pc = "enhance_audio"
    /\ alone = FALSE
    /\ \E in \in SilenceInputs : audio_data = in[1] /\ settings = in[2]
    /\ sample_rate = 24000
    /\ target_level = TargetLevel
    /\ enhanced = <<>>
    /\ returned = <<>>
    /\ raised = FALSE
    /\ calls = <<>>
    /\ NoOla
    /\ twin = <<>> /\ twin_calls = <<>>
    /\ fft_size = 0 /\ parked = <<>>
    /\ band = 0 /\ enhanced_audio = <<>> /\ failed = {}
    /\ enhancement_level = 0
    /\ magnitude = <<>> /\ freq_enhance = <<>> /\ enhanced_magnitude = <<>>

SpecSilence == SilenceInit /\ [][Next]_vars

\* ------------------------------------------- enhance_audio, called twice
\* The caller calls enhance_audio again on the same waveform with another
\* parameter mapping; what the first call ran stays on record.
CallAgain ==
    /\ pc = "done" /\ ~ raised /\ ~ alone
    /\ calls # <<>> /\ twin_calls = <<>>
    /\ twin_calls' = calls
    /\ settings' = twin
    /\ twin' = settings
    /\ calls' = <<>>
    /\ enhanced' = <<>>
    /\ returned' = <<>>
    /\ pc' = "enhance_audio"
    /\ UNCHANGED <<alone, audio_data, sample_rate, target_level, raised, ola, band,
                   enhanced_audio, failed, enhancement_level, magnitude,
                   freq_enhance, enhanced_magnitude, fft_size, parked>>

\* Parameter mappings that give the same six values in different ways (keys
\* left out, keys set to their defaults, keys enhance_audio does not know),
\* and mappings that differ in one of the six.
Defaults ==
    [spectrum_enhance |-> 50, voice_quality |-> 50, fluctuation |-> 30,
     breathiness |-> 20, pitch_variation |-> 40, speed_variation |-> 30]
TwinSettings ==
    {<<>>, Defaults, [breathiness |-> 20, volume |-> 80],
     [breathiness |-> 0], [breathiness |-> 0, pitch_variation |-> 40, speed |-> 9],
     [fluctuation |-> 0, spectrum_enhance |-> 80]}

TwiceInit ==
    /\ pc = "enhance_audio"
    /\ alone = FALSE
    /\ audio_data \in {Wave(256, Voice), Wave(3, Quiet)}
    /\ settings \in TwinSettings
    /\ sample_rate = 24000
    /\ target_level = TargetLevel
    /\ enhanced = <<>>
    /\ returned = <<>>
    /\ raised = FALSE
    /\ calls = <<>>
    /\ NoOla
    /\ band = 0 /\ enhanced_audio = <<>> /\ failed = {}
    /\ enhancement_level = 0
    /\ magnitude = <<>> /\ freq_enhance = <<>> /\ enhanced_magnitude = <<>>
    /\ twin \in TwinSettings
    /\ twin_calls = <<>>
    /\ fft_size = 0 /\ parked = <<>>

\* The waveforms called twice are non-empty and too short for the pitch
\* variation to have a segment to process: its stage is entered and left.
TwiceNext ==
    \/ Copy \/ Spectrum \/ VoiceQuality \/ Breathiness \/ Fluctuation
    \/ PitchBegin \/ Speed \/ Normalize \/ Except \/ CallAgain

SpecTwice == TwiceInit /\ [][TwiceNext]_vars

\* ------------------------------------ the pitch variation, on its own
\* effects.adjust_pitch_variation up to its loop: 50 ms segments, and no
\* processing at all for variation_amount <= 0.
AdjustBegin ==
    /\ pc = "adjust_pitch_variation"
    /\ IF variation <= 0
       THEN /\ Return("adjust_pitch_variation", enhanced, "done")
            /\ UNCHANGED ola
       ELSE /\ segment_length' = (5 * sample_rate) \div Hundred
            /\ hop_length' = ((5 * sample_rate) \div Hundred) \div 2
            /\ result' = zeros_like(enhanced)
            /\ weights' = zeros_like(enhanced)
            /\ window' = hanning((5 * sample_rate) \div Hundred)
            /\ i' = 0
            /\ drawn' = "none"
            /\ offsets' = <<>>
            /\ divisor' = <<>>
            /\ UNCHANGED output_pos
            /\ pc' = "adjust_loop"
            /\ UNCHANGED <<enhanced, returned, calls, variation>>
    /\ UNCHANGED <<alone, io, aside, raised>>

\* One pass of the loop of adjust_pitch_variation.
AdjustSegment ==
    /\ pc = "adjust_loop"
    /\ InRange(i, Len(enhanced) - segment_length)
    /\ \E draw \in ShiftDraws : OverlapAdd(draw)
    /\ UNCHANGED <<pc, alone, io, aside, enhanced, returned, raised, calls, variation,
                   segment_length, hop_length, window, output_pos, divisor>>

AdjustEnd ==
    /\ pc = "adjust_loop"
    /\ ~ InRange(i, Len(enhanced) - segment_length)
    /\ Return("adjust_pitch_variation", Divide(result, FloorWeights(weights)), "done")
    /\ divisor' = FloorWeights(weights)
    /\ DropOla
    /\ UNCHANGED <<alone, io, aside, raised>>

\* Inputs of the two pitch variations: lengths around the 1024 samples below
\* which enhance_pitch_variation does nothing, around the 8192 samples from
\* which its segments stay at 2048 samples (these with a variation of 0,
\* where every shift drawn is 0), and around one 50 ms segment.
ProcessorPitchLens == {0, 1, 1023, 1024, 1030}
LongPitchLens == {8191, 8192, 9000}
EffectsPitchLens == {0, 1, 399, 400, 401, 1000, 1201, 1300}
SampleRates == {8000, 24000}

PitchInit ==
    /\ alone = TRUE
    /\ \/ /\ pc = "enhance_pitch_variation"
          /\ audio_data \in {Wave(n, Voice) : n \in ProcessorPitchLens}
          /\ sample_rate = 24000
          /\ variation \in {0, 40}
       \/ /\ pc = "adjust_pitch_variation"
          /\ audio_data \in {Wave(n, Voice) : n \in EffectsPitchLens}
          /\ sample_rate \in SampleRates
          /\ variation \in {0, 30}
    /\ enhanced = audio_data
    /\ settings = <<>>
    /\ target_level = TargetLevel
    /\ returned = <<>>
    /\ raised = FALSE
    /\ calls = <<>>
    /\ segment_length = 0 /\ hop_length = 0
    /\ window = <<>> /\ result = <<>> /\ weights = <<>> /\ i = 0
    /\ drawn = "none" /\ output_pos = 0 /\ offsets = <<>> /\ divisor = <<>>
    /\ NoAside

\* enhance_pitch_variation on waveforms long enough for segments of 2048
\* samples, with a variation of 0.
LongPitchInit ==
    /\ alone = TRUE
    /\ pc = "enhance_pitch_variation"
    /\ audio_data \in {Wave(n, Voice) : n \in LongPitchLens}
    /\ sample_rate = 24000
    /\ variation = 0
    /\ enhanced = audio_data
    /\ settings = <<>>
    /\ target_level = TargetLevel
    /\ returned = <<>>
    /\ raised = FALSE
    /\ calls = <<>>
    /\ NoOla
    /\ NoAside

PitchNext ==
    \/ PitchBegin \/ PitchSegment \/ PitchEnd
    \/ AdjustBegin \/ AdjustSegment \/ AdjustEnd

SpecPitch == (PitchInit \/ LongPitchInit) /\ [][PitchNext]_vars

\* ------------------------------------ the speed variation, on its own
\* The index of the last non-zero entry of w[lo..hi], 0 when there is none.
RECURSIVE LastNonzero(_, _, _)
LastNonzero(w, lo, hi) ==
    IF lo > hi THEN 0
    ELSE IF lo = hi THEN (IF w[lo] # 0 THEN lo ELSE 0)
    ELSE LET mid == (lo + hi) \div 2
             b == LastNonzero(w, mid + 1, hi)
         IN  IF b # 0 THEN b ELSE LastNonzero(w, lo, mid)

\* librosa.resample(result, orig_sr=len(result), target_sr=len(audio_data)):
\* library code that brings m samples to n; here each output sample is the
\* input sample at the same relative position.
resample(y, n) == [k \in 1..n |-> y[(((k - 1) * Len(y)) \div n) + 1]]

\* speed_factor after the clamp to [0.8, 1.2], in hundredths: the draws of
\* 1.0 + np.random.normal(0, variation_amount * 0.1) the model follows.
\* Mutant: the speed factor is not clamped.
speed_factor_unclamped(draw) ==
    IF draw = "slower" THEN 70 ELSE IF draw = "faster" THEN 130 ELSE Hundred

SpeedDraws == {"slower", "same", "faster"}
speed_factor(draw) ==
    IF draw = "slower" THEN 80 ELSE IF draw = "faster" THEN 120 ELSE Hundred

\* effects.adjust_speed_variation up to its loop: 200 ms segments, three
\* quarters of a segment from one to the next, a result buffer longer than
\* the input by half the variation amount.
SpeedBegin ==
    /\ pc = "adjust_speed_variation"
    /\ IF variation <= 0
       THEN /\ Return("adjust_speed_variation", enhanced, "done")
            /\ UNCHANGED ola
       ELSE /\ segment_length' = (20 * sample_rate) \div Hundred
            /\ hop_length' = (3 * ((20 * sample_rate) \div Hundred)) \div 4
            /\ result' = [k \in 1..(Len(enhanced)
                            + (Len(enhanced) * variation) \div (2 * Hundred)) |-> 0]
            /\ weights' = [k \in 1..(Len(enhanced)
                            + (Len(enhanced) * variation) \div (2 * Hundred)) |-> 0]
            /\ window' = hanning((20 * sample_rate) \div Hundred)
            /\ output_pos' = 0
            /\ i' = 0
            /\ drawn' = "none"
            /\ offsets' = <<>>
            /\ divisor' = <<>>
            /\ pc' = "speed_loop"
            /\ UNCHANGED <<enhanced, returned, calls, variation>>
    /\ UNCHANGED <<alone, io, aside, raised>>

\* One pass of the loop of adjust_speed_variation: the segment is windowed
\* (twice when the factor is not 1.0) and added at output_pos if it fits
\* there; output_pos moves by the hop times the factor.
SpeedSegment ==
    /\ pc = "speed_loop"
    /\ InRange(i, Len(enhanced) - segment_length)
    /\ \E draw \in SpeedDraws :
         LET taken == SubSeq(enhanced, i + 1, i + segment_length)
             segment == IF speed_factor(draw) # Hundred
                        THEN [k \in 1..segment_length |-> FMul(taken[k], window[k])]
                        ELSE taken
             windowed == [k \in 1..segment_length |-> FMul(segment[k], window[k])]
         IN  /\ IF output_pos + segment_length <= Len(result)
                THEN /\ result' = AddAt(result, output_pos, windowed)
                     /\ weights' = AddAt(weights, output_pos, window)
                ELSE UNCHANGED <<result, weights>>
             /\ output_pos' = output_pos + (hop_length * speed_factor(draw)) \div Hundred
             /\ drawn' = draw
    /\ offsets' = Append(offsets, i)
    /\ i' = i + hop_length
    /\ UNCHANGED <<pc, alone, io, aside, enhanced, returned, raised, calls, variation,
                   segment_length, hop_length, window, divisor>>

\* After the loop with no weight set: np.nonzero(weights)[0] is empty and
\* np.max of it raises ValueError, which nothing in the routine catches.
SpeedRaises ==
    /\ pc = "speed_loop"
    /\ ~ InRange(i, Len(enhanced) - segment_length)
    /\ LastNonzero(weights, 1, Len(weights)) = 0
    /\ raised' = TRUE
    /\ pc' = "done"
    /\ DropOla
    /\ UNCHANGED <<alone, io, aside, enhanced, returned, calls, divisor>>

\* After the loop: the buffers are cut after the last weight set, the
\* weights floored, the sum divided and brought back to the input's length.
SpeedEnd ==
    /\ pc = "speed_loop"
    /\ ~ InRange(i, Len(enhanced) - segment_length)
    /\ LastNonzero(weights, 1, Len(weights)) # 0
    /\ LET valid_length == LastNonzero(weights, 1, Len(weights))
           floored == FloorWeights(SubSeq(weights, 1, valid_length))
           quotient == Divide(SubSeq(result, 1, valid_length), floored)
       IN  /\ divisor' = floored
           /\ Return("adjust_speed_variation",
                     IF valid_length # Len(enhanced)
                     THEN resample(quotient, Len(enhanced)) ELSE quotient,
                     "done")
    /\ DropOla
    /\ UNCHANGED <<alone, io, aside, raised>>

\* Inputs of the two speed variations: lengths around one 200 ms segment and
\* a few segments long, and around the 1000 samples below which
\* enhance_speed_variation does nothing.
EffectsSpeedLens == {0, 1, 9, 10, 11, 17, 18, 25, 38, 45}
EffectsSpeedRates == {50, 100}
ProcessorSpeedLens == {0, 999, 1000, 1001}
\* Two and three segments of 20 samples at a sample rate of 100, for a
\* variation amount of 0.01.
TightSpeedLens == {37, 52}

SpeedInit ==
    /\ alone = TRUE
    /\ \/ /\ pc = "enhance_speed_variation"
          /\ audio_data \in {Wave(n, Voice) : n \in ProcessorSpeedLens}
          /\ sample_rate = 24000
          /\ settings \in {<<>>, [speed_variation |-> 0], [speed_variation |-> Hundred]}
          /\ variation = 0
       \/ /\ pc = "adjust_speed_variation"
          /\ audio_data \in {Wave(n, Voice) : n \in EffectsSpeedLens}
          /\ sample_rate \in EffectsSpeedRates
          /\ settings = <<>>
          /\ variation \in {0, 30, Hundred}
       \/ /\ pc = "adjust_speed_variation"
          /\ audio_data \in {Wave(n, Voice) : n \in TightSpeedLens}
          /\ sample_rate = 100
          /\ settings = <<>>
          /\ variation = 1
    /\ enhanced = audio_data
    /\ target_level = TargetLevel
    /\ returned = <<>>
    /\ raised = FALSE
    /\ calls = <<>>
    /\ segment_length = 0 /\ hop_length = 0
    /\ window = <<>> /\ result = <<>> /\ weights = <<>> /\ i = 0
    /\ drawn = "none" /\ output_pos = 0 /\ offsets = <<>> /\ divisor = <<>>
    /\ NoAside

\* Every windowed prosody stage of the two modules, each called on its own.
ProsodyNext ==
    \/ PitchBegin \/ PitchSegment \/ PitchEnd
    \/ AdjustBegin \/ AdjustSegment \/ AdjustEnd
    \/ Speed \/ SpeedBegin \/ SpeedSegment \/ SpeedRaises \/ SpeedEnd

SpecProsody == (PitchInit \/ SpeedInit) /\ [][ProsodyNext]_vars

\* ------------------------------------------- normalize_audio, on its own
\* The floating point numbers of [-1, 1].
SampleVals == {v \in -One..One : IsFloat(v)}

\* Samples after the first are taken from a few levels, silence included.
TailVals == {-One, -((3 * One) \div 8), 0, (3 * One) \div 8, One}

NormWaves ==
    UNION {{w \in [1..n -> SampleVals] : \A k \in 2..n : w[k] \in TailVals} :
           n \in 1..MaxNormLen}

\* Target levels in (0, 1]: the default 0.9 and a few others.
Targets == {TargetLevel, (25 * One) \div 32, One \div 2, One}

NormInit ==
    /\ pc = "normalize"
    /\ alone = TRUE
    /\ audio_data \in NormWaves
    /\ target_level \in Targets
    /\ settings = <<>>
    /\ sample_rate = 24000
    /\ enhanced = <<>>
    /\ returned = <<>>
    /\ raised = FALSE
    /\ calls = <<>>
    /\ NoOla
    /\ NoAside

\* normalize_audio(w, t)
NormOnce ==
    /\ pc = "normalize"
    /\ enhanced' = normalize_audio(audio_data, target_level)
    /\ pc' = "normalize_again"
    /\ UNCHANGED <<alone, io, aside, returned, raised, calls, ola>>

\* normalize_audio(normalize_audio(w, t), t)
NormTwice ==
    /\ pc = "normalize_again"
    /\ returned' = normalize_audio(enhanced, target_level)
    /\ pc' = "normalized"
    /\ UNCHANGED <<alone, io, aside, enhanced, raised, calls, ola>>

NormNext == NormOnce \/ NormTwice

SpecNorm == NormInit /\ [][NormNext]_vars

\* ================================================================ claims
\* The stages in the order enhance_audio names them.
Rank(stage) ==
    CASE stage = "enhance_spectrum" -> 1
      [] stage = "enhance_voice_quality" -> 2
      [] stage = "add_breathiness" -> 3
      [] stage = "add_natural_fluctuation" -> 4
      [] stage = "enhance_pitch_variation" -> 5
      [] stage = "enhance_speed_variation" -> 6
      [] stage = "normalize_audio" -> 7
      [] OTHER -> 0

Called(stage) == \E j \in 1..Len(calls) : calls[j].stage = stage
TimesCalled(stage) == Cardinality({j \in 1..Len(calls) : calls[j].stage = stage})

\* The peak absolute amplitude of a waveform, 0 for the empty one.
Peak(w) ==
    IF Len(w) = 0 THEN 0
    ELSE CHOOSE m \in {Abs(w[k]) : k \in 1..Len(w)} :
             \A k \in 1..Len(w) : Abs(w[k]) <= m

Finished == pc = "done" /\ ~ raised

\* C1: when a stage raises inside enhance_audio, the call still returns, and
\* what it returns is the caller's waveform with the samples it had at call
\* time (the waveform is never written), not the partly processed one.
C1_FailureReturnsOriginal ==
    /\ [](raised => pc = "done" /\ returned = audio_data)
    /\ [][audio_data' = audio_data]_vars

C1_Witness == raised /\ Len(calls) >= 2 /\ enhanced # audio_data

\* C2: an empty waveform is returned as it is: no stage is called, not even
\* the normalization, and nothing is raised.
C2_EmptyUntouched ==
    Len(audio_data) = 0 =>
        /\ calls = <<>> /\ ~ raised
        /\ pc \in {"enhance_audio", "done"}
        /\ pc = "done" => returned = audio_data

C2_Witness == Len(audio_data) = 0 /\ pc = "done" /\ DOMAIN settings # {}

\* C3: for 1 to 255 samples no stage but the normalization is called, and the
\* waveform returned has the input's length and is the input peak-normalized
\* to 0.9 (the input itself when the normalization raised).
C3_ShortOnlyNormalized ==
    Len(audio_data) \in 1..(MinSamples - 1) =>
        /\ \A j \in 1..Len(calls) : calls[j].stage = "normalize_audio"
        /\ pc = "done" =>
             /\ Len(returned) = Len(audio_data)
             /\ returned = IF raised THEN audio_data
                           ELSE normalize_audio(audio_data, TargetLevel)

C3_Witness ==
    /\ Len(audio_data) = MinSamples - 1 /\ Finished
    /\ returned # audio_data /\ Peak(returned) = TargetLevel

\* C4: for 256 samples or more the stages that run do so in the order
\* spectral, formant, breathiness, fluctuation, pitch, speed, normalization,
\* each at most once, the first on the input and each later one on what the
\* stage before it returned.
C4_StagesInOrder ==
    Len(audio_data) >= MinSamples /\ ~ alone =>
        /\ \A j \in 2..Len(calls) :
             /\ Rank(calls[j - 1].stage) < Rank(calls[j].stage)
             /\ calls[j].arg = calls[j - 1].ret
        /\ \A j \in 1..Len(calls) : Rank(calls[j].stage) > 0
        /\ calls # <<>> => calls[1].arg = Digest(audio_data)

C4_Witness ==
    /\ Finished /\ Len(calls) = 7 /\ Len(audio_data) = 1024
    /\ \A j \in {1, 2, 4, 5} : calls[j].ret # calls[j].arg

C6_NormalizedLast ==
    Len(audio_data) > 0 /\ Finished =>
        /\ calls # <<>>
        /\ calls[Len(calls)].stage = "normalize_audio"
        /\ TimesCalled("normalize_audio") = 1
        /\ calls[Len(calls)].ret = Digest(returned)
        /\ Peak(returned) \in {0, Fl(9 * One, 10)}

C6_Witness ==
    /\ Len(audio_data) >= MinSamples /\ Finished
    /\ Len(calls) > 1 /\ Peak(returned) = Fl(9 * One, 10)

\* C7: on every path (empty, short, full pipeline, failure) the waveform
\* returned has as many samples as the input.
C7_LengthKept ==
    /\ pc = "done" => Len(returned) = Len(audio_data)
    /\ pc # "enhance_audio" => Len(enhanced) = Len(audio_data)

C7_Witness ==
    /\ Finished /\ Len(audio_data) = 1000 /\ Len(calls) = 7 /\ returned # audio_data

\* C8: normalize_audio scales a waveform whose peak is above 0 so that the
\* peak becomes t, every sample by the factor t/peak (as far as the rounding
\* of the two floating point operations allows: within two units in the last
\* place); an all-zero waveform comes back unchanged.
C8_NormalizeScales ==
    pc = "normalize_again" =>
        /\ Len(enhanced) = Len(audio_data)
        /\ IF Peak(audio_data) > 0
           THEN /\ Peak(enhanced) = target_level
                /\ \A k \in 1..Len(audio_data) :
                     Abs(enhanced[k] * Peak(audio_data) - audio_data[k] * target_level)
                         <= 2 * Ulp(enhanced[k]) * Peak(audio_data)
           ELSE enhanced = audio_data

C8_Witness ==
    /\ pc = "normalize_again" /\ Len(audio_data) = 2
    /\ audio_data[1] < 0 /\ Peak(audio_data) = -audio_data[1]
    /\ audio_data[2] > 0 /\ enhanced[2] # audio_data[2]

\* C9 as stated: normalizing twice gives exactly what normalizing once gives.
C9_ExactlyIdempotent == pc = "normalized" => returned = enhanced

\* C9, amended: normalizing twice gives what normalizing once gives up to
\* floating point rounding: the same length, the same peak t, and every
\* sample within one unit in the last place.
C9_IdempotentToRounding ==
    pc = "normalized" =>
        /\ Len(returned) = Len(enhanced)
        /\ Peak(returned) = Peak(enhanced)
        /\ Peak(audio_data) > 0 => Peak(returned) = target_level
        /\ \A k \in 1..Len(enhanced) :
             Abs(returned[k] - enhanced[k]) <= Ulp(enhanced[k])

C9_Witness ==
    /\ pc = "normalized" /\ Peak(audio_data) > 0
    /\ returned # enhanced /\ Peak(returned) = target_level

\* C10: the pitch variation (AudioProcessor.enhance_pitch_variation and
\* effects.adjust_pitch_variation) returns as many samples as it was given,
\* whatever the shifts drawn and whether or not pitch_shift raises.
C10_PitchKeepsLength ==
    /\ pc = "done" => Len(returned) = Len(audio_data)
    /\ pc \in {"pitch_loop", "adjust_loop"} =>
           Len(result) = Len(audio_data) /\ Len(weights) = Len(audio_data)

C10_Witness ==
    /\ pc = "done" /\ Len(audio_data) = 1030 /\ drawn = "raises"
    /\ calls[1].stage = "enhance_pitch_variation" /\ returned # audio_data

\* ------------------------------------------------- the windowed stages
\* The statements of the loops of the windowed stages, and of the stages.
Loops == {"pitch_loop", "adjust_loop", "speed_loop"}
SpeedStage == {"enhance_speed_variation", "adjust_speed_variation", "speed_loop"}

\* C11: each speed variation returns as many samples as it was given, for
\* every input length, every variation amount and every drawn factor, and
\* raises nothing.
C11_SpeedKeepsLength ==
    [][pc' = "done" /\ pc \in SpeedStage =>
          ~ raised' /\ Len(returned') = Len(audio_data) ]_vars

\* C12: when an overlap-add stage divides its sum by the weights, every
\* weight is at least 0.001, the entries that were below it (those no segment
\* wrote included) are 1.0, and the quotient holds no inf and no nan.
C12_WeightsFloored ==
    [][~ raised' /\ pc \in Loops /\ pc' \notin Loops =>
          /\ \A k \in 1..Len(divisor') :
                /\ divisor'[k] * 1000 >= One
                /\ weights[k] * 1000 < One => divisor'[k] = One
          /\ \A k \in 1..Len(returned') : returned'[k] # NotFinite
      ]_vars

C12_Witness ==
    /\ pc = "done" /\ ~ raised /\ Len(audio_data) = 1030
    /\ Len(divisor) = 1030 /\ divisor[1030] = One
    /\ \E k \in 1..1030 : divisor[k] # One

\* C13: with n samples, segments of L samples and a hop H < L, a windowed
\* stage takes its segments at exactly the offsets k*H below n - L, in
\* increasing order, and each segment lies inside the waveform.
C13_OffsetsOfRange ==
    [][/\ offsets' # offsets /\ offsets' # <<>> =>
            /\ hop_length' < segment_length'
            /\ offsets' = Append(offsets, Len(offsets) * hop_length')
            /\ Len(offsets) * hop_length' < Len(enhanced) - segment_length'
            /\ Len(offsets) * hop_length' + segment_length' <= Len(enhanced)
       /\ pc \in Loops /\ pc' \notin Loops =>
            \A k \in 0..Len(enhanced) :
                k * hop_length < Len(enhanced) - segment_length => k < Len(offsets)
      ]_vars

C13_Witness == pc = "done" /\ ~ raised /\ Len(offsets) = 5 /\ offsets[5] = 28

\* C14: a windowed stage leaves out only partial segments: every offset k*H
\* at which a whole segment fits (k*H + L <= n) is taken, and the samples no
\* segment covers are fewer than one hop.
C14_OnlyPartialOmitted ==
    [][pc' \notin Loops /\ pc \in {"pitch_loop", "adjust_loop"} =>
          /\ \A k \in 0..Len(enhanced) :
                k * hop_length + segment_length <= Len(enhanced)
                    => k < Len(offsets) /\ offsets[k + 1] = k * hop_length
          /\ offsets # <<>> =>
                Len(enhanced) - (offsets[Len(offsets)] + segment_length) < hop_length
      ]_vars

\* C15: a windowed stage given fewer samples than one segment returns its
\* input, sample for sample, and raises nothing.
C15_ShortIsNoOp ==
    [][Len(enhanced) < segment_length /\ pc \in Loops /\ pc' \notin Loops =>
          ~ raised' /\ returned' = audio_data]_vars

\* ------------------------------------------------------ frame and settings
\* C16: enhance_audio leaves the samples of the array it was passed as they
\* were, on every path, the failure path included.
C16_CallerUntouched == [][audio_data' = audio_data]_vars

C16_Witness ==
    /\ Finished /\ Len(audio_data) = 256 /\ Len(calls) = 7
    /\ calls[2].stage = "enhance_voice_quality" /\ calls[2].ret # calls[2].arg
    /\ returned # audio_data

\* The six recognized keys with the documented defaults filled in.
Recognized(s) ==
    [spectrum_enhance |-> IF "spectrum_enhance" \in DOMAIN s THEN s.spectrum_enhance ELSE 50,
     voice_quality |-> IF "voice_quality" \in DOMAIN s THEN s.voice_quality ELSE 50,
     fluctuation |-> IF "fluctuation" \in DOMAIN s THEN s.fluctuation ELSE 30,
     breathiness |-> IF "breathiness" \in DOMAIN s THEN s.breathiness ELSE 20,
     pitch_variation |-> IF "pitch_variation" \in DOMAIN s THEN s.pitch_variation ELSE 40,
     speed_variation |-> IF "speed_variation" \in DOMAIN s THEN s.speed_variation ELSE 30]

\* Both calls have returned without an exception.
BothFinished == Finished /\ twin_calls # <<>>

\* C17: two calls of enhance_audio on the same waveform whose parameter
\* mappings give the same six recognized values (a missing key counting as
\* its default, other keys not counting) run the same stages with the same
\* parameters and waveforms: a stage given the same waveform in both calls
\* returns the same in both unless it draws random numbers.
C17_SameSixSameRun ==
    BothFinished /\ Recognized(settings) = Recognized(twin) =>
        /\ Len(calls) = Len(twin_calls)
        /\ calls[1].arg = twin_calls[1].arg
        /\ \A j \in 1..Len(calls) :
              /\ calls[j].stage = twin_calls[j].stage
              /\ calls[j].level = twin_calls[j].level
              /\ calls[j].arg = twin_calls[j].arg
                   /\ calls[j].stage \notin {"add_breathiness", "add_natural_fluctuation"}
                   => calls[j].ret = twin_calls[j].ret

C17_Witness ==
    /\ BothFinished /\ Recognized(settings) = Recognized(twin)
    /\ DOMAIN settings # DOMAIN twin
    /\ "volume" \in DOMAIN settings
    /\ Len(calls) = 7 /\ calls[3].stage = "add_breathiness"

\* C18: silence stays silence: for an all-zero waveform (10000 samples and
\* the default parameters among them) every stage of enhance_audio returns
\* all zeros whatever is drawn, and so does enhance_audio.
C18_SilenceKept ==
    Peak(audio_data) = 0 =>
        /\ pc # "enhance_audio" => enhanced = audio_data
        /\ pc = "pitch_loop" => Peak(result) = 0
        /\ pc = "done" => returned = audio_data

C18_Witness ==
    /\ Finished /\ Len(audio_data) = SilenceLen /\ settings = <<>>
    /\ Peak(audio_data) = 0 /\ Len(calls) = 7 /\ drawn = "shifted"
    /\ Len(offsets) = 8

\* ------------------------------------------------------- spectral gain
\* C19: the gain ramp is 1.0 at the first bin, 1.0 + level at the last and
\* never falls in between, for every level in [0, 1]; at level 0 every gain
\* is exactly 1.0 and the magnitudes handed to the resynthesis are the
\* analysed ones.
C19_GainRamp ==
    pc \in {"istft", "done"} /\ freq_enhance # <<>> =>
        /\ Len(freq_enhance) = Len(magnitude)
        /\ freq_enhance[1] = One
        /\ freq_enhance[Len(freq_enhance)]
             = Fl(One + Fl(enhancement_level * One, 100), 1)
        /\ \A b \in 1..(Len(freq_enhance) - 1) : freq_enhance[b] <= freq_enhance[b + 1]
        /\ enhancement_level = 0 =>
             /\ \A b \in 1..Len(freq_enhance) : freq_enhance[b] = One
             /\ enhanced_magnitude = magnitude

C19_Witness ==
    /\ pc = "done" /\ enhancement_level = 50 /\ Len(freq_enhance) = 1025
    /\ freq_enhance[1] < freq_enhance[513]
    /\ freq_enhance[513] < freq_enhance[1025]
    /\ enhanced_magnitude # magnitude

\* ------------------------------------------------------- formant bands
\* The bands whose filter cannot be built at the sample rate sr.
Unbuildable(sr) ==
    {b \in 1..10 : ~ (Max(formant_freqs[b] - 50, 20) < Min(formant_freqs[b] + 50, sr \div 2 - 1)
                        /\ 2 * Min(formant_freqs[b] + 50, sr \div 2 - 1) < sr)}

\* C20: when a formant band raises, the accumulator is left as the earlier
\* bands made it, the loop goes on with the next band, every one of the ten
\* bands is gone through and the stage returns its accumulator normally.
C20_BandFailureSkipped ==
    /\ [][band' # band /\ pc = "band_loop" =>
            /\ band' = band + 1
            /\ ~ raised'
            /\ band \in Unbuildable(sample_rate) => band \in failed'
            /\ band \in failed' => enhanced_audio' = enhanced_audio
       ]_vars
    /\ [](pc = "done" => /\ ~ raised
                         /\ band = 11
                         /\ returned = enhanced_audio
                         /\ failed = Unbuildable(sample_rate)
                              => returned = enhance_voice_quality(audio_data,
                                                                  enhancement_level,
                                                                  sample_rate))

C20_Witness ==
    /\ pc = "done" /\ ~ raised /\ sample_rate = 2000
    /\ failed = {2, 4, 6, 8} /\ enhancement_level = 50
    /\ Len(audio_data) = 8 /\ returned # audio_data

\* ------------------------------------------------ segments and their sums
\* The pitch loops of the two modules.
PitchLoops == {"pitch_loop", "adjust_loop"}

\* C21: a segment on which pitch_shift raises, and a segment whose drawn
\* shift is below 0.01, adds its own samples times the window to the sum and
\* the window to the weights, and the loop goes on to the next offset.
C21_FallbackUnshifted ==
    [][offsets' # offsets /\ pc \in PitchLoops /\ drawn' \in {"raises", "below"} =>
          /\ result' = AddAt(result, i,
                 [k \in 1..segment_length |-> FMul(enhanced[i + k], window[k])])
          /\ weights' = AddAt(weights, i, window)
          /\ pc' = pc /\ i' = i + hop_length /\ ~ raised'
      ]_vars

C21_Witness ==
    /\ pc = "pitch_loop" /\ drawn = "raises" /\ Len(offsets) = 1
    /\ InRange(i, Len(enhanced) - segment_length)
    /\ \E k \in 1..segment_length : result[k] # 0

\* What band b adds to sample k of the accumulator: its filtering of the
\* stage's input, times enhancement_level * 0.2.
BandTerm(b, k) ==
    Scale(lfilter(butter(formant_freqs[b], sample_rate), audio_data)[k],
          enhancement_level * 2, Hundred * 10)

\* Sample k of the accumulator after the bands order[1..j] were visited.
RECURSIVE Visit(_, _, _)
Visit(order, j, k) ==
    IF j = 0 THEN audio_data[k]
    ELSE FAdd(Visit(order, j - 1, k), BandTerm(order[j], k))

AsWalked == [j \in 1..Len(formant_freqs) |-> j]
Reversed == [j \in 1..Len(formant_freqs) |-> Len(formant_freqs) + 1 - j]

\* The sum over the bands 1..j of sample k of the band's filtering of the
\* input, and of its magnitude, both exact.
RECURSIVE BandSum(_, _)
BandSum(j, k) ==
    IF j = 0 THEN 0
    ELSE BandSum(j - 1, k)
           + lfilter(butter(formant_freqs[j], sample_rate), audio_data)[k]

RECURSIVE BandAbsSum(_, _)
BandAbsSum(j, k) ==
    IF j = 0 THEN 0
    ELSE BandAbsSum(j - 1, k)
           + Abs(lfilter(butter(formant_freqs[j], sample_rate), audio_data)[k])

\* input + level * 0.2 * (sum over the bands), the sum scaled and added once.
SumThenAdd(k) ==
    FAdd(audio_data[k],
         Fl(BandSum(Len(formant_freqs), k) * enhancement_level * 2, Hundred * 10))

\* Whether v is the exact input + level * 0.2 * sum up to the rounding of
\* ten products and ten additions (v and the input in units, times 1000).
NearExactSum(v, k) ==
    Abs(Hundred * 10 * (v - audio_data[k])
          - 2 * enhancement_level * BandSum(Len(formant_freqs), k))
      <= Hundred * 10 * Len(formant_freqs)
           * Ulp(Abs(audio_data[k]) + BandAbsSum(Len(formant_freqs), k))

\* C22 as stated: with no band failure the output is exactly
\* input + level * 0.2 * (sum of the ten filterings of the input), whatever
\* the order in which the bands are visited.
C22_ExactSum ==
    pc = "done" /\ failed = {} =>
        \A k \in 1..Len(audio_data) :
            /\ returned[k] = SumThenAdd(k)
            /\ returned[k] = Visit(Reversed, Len(formant_freqs), k)

\* C22, amended: every band that does not fail adds level * 0.2 times its
\* filtering of the stage's input (never of the accumulator) to the
\* accumulator; with no band failure the output is the input with the ten
\* terms added in the order of the dictionary, which is
\* input + level * 0.2 * (sum of the ten filterings) up to the rounding of
\* the additions, as it is for any other order of the bands.
C22_BandsFilterInput ==
    /\ [][band' # band /\ pc = "band_loop" /\ band \notin failed' =>
            /\ Len(enhanced_audio') = Len(audio_data)
            /\ \A k \in 1..Len(audio_data) :
                 enhanced_audio'[k] = FAdd(enhanced_audio[k], BandTerm(band, k))
       ]_vars
    /\ [](pc = "done" /\ failed = {} =>
            /\ Len(returned) = Len(audio_data)
            /\ \A k \in 1..Len(audio_data) :
                 /\ returned[k] = Visit(AsWalked, Len(formant_freqs), k)
                 /\ NearExactSum(returned[k], k)
                 /\ NearExactSum(Visit(Reversed, Len(formant_freqs), k), k)
                 /\ NearExactSum(SumThenAdd(k), k))

C22_Witness ==
    /\ pc = "done" /\ failed = {} /\ enhancement_level = 50
    /\ Len(audio_data) = 8 /\ returned # audio_data
    /\ \E k \in 1..8 : returned[k] # Visit(Reversed, Len(formant_freqs), k)

\* ------------------------------------------------------- the FFT size
IsPowerOfTwo(v) == \E e \in 0..20 : v = Pow2(e)

\* The largest power of two that is at most n and at most cap, and a
\* quarter of it.
LargestWithin(size, hop, n, cap) ==
    /\ IsPowerOfTwo(size)
    /\ size <= n /\ size <= cap
    /\ \A e \in 0..20 : Pow2(e) <= n /\ Pow2(e) <= cap => Pow2(e) <= size
    /\ hop = size \div 4

\* C23 as stated: for every length n >= 1 the FFT size of enhance_spectrum
\* (of both AudioProcessor classes) is the largest power of two that is at
\* most n and at most 2048, and the hop length is a quarter of it.
C23_LargestUpTo2048 ==
    pc \in {"stft", "player_stft"} =>
        LargestWithin(fft_size, hop_length, Len(audio_data), MaxFft)

\* C23, amended: the FFT size is the largest power of two that is at most n
\* and at most the cap of the routine, 2048 in audio/processor.py and 1024
\* in audio_player.py; the hop length is a quarter of it.
C23_LargestUpToCap ==
    /\ pc = "stft" =>
           LargestWithin(fft_size, hop_length, Len(audio_data), MaxFft)
    /\ pc = "player_stft" =>
           /\ LargestWithin(fft_size, hop_length, Len(audio_data), PlayerMaxFft)
           /\ fft_size <= MaxFft

C23_Witness ==
    /\ pc = "player_stft" /\ Len(audio_data) = 4096
    /\ fft_size = 1024 /\ hop_length = 256

\* ------------------------------------------- the segments of the pitch stage
\* C24: enhance_pitch_variation takes segments of L = min(2048, n // 4)
\* samples, L // 2 apart; with L < 256, which is with fewer than 1024
\* samples, it returns its input as it is and draws nothing; with L >= 256
\* it processes at least one segment.
C24_SegmentRule ==
    /\ [][pc = "enhance_pitch_variation" /\ pc' # pc =>
            LET n == Len(enhanced)
                L == IF n \div 4 < 2048 THEN n \div 4 ELSE 2048
            IN  /\ L < 256 <=> n < 1024
                /\ L < 256 =>
                     /\ pc' = "done" /\ ~ raised'
                     /\ returned' = audio_data
                     /\ drawn' = "none" /\ offsets' = <<>>
                /\ L >= 256 =>
                     /\ pc' = "pitch_loop"
                     /\ segment_length' = L /\ hop_length' = L \div 2
                     /\ Len(window') = L
       ]_vars
    /\ [][pc = "pitch_loop" /\ pc' = "done" =>
            /\ offsets # <<>>
            /\ drawn # "none"
       ]_vars

C24_Witness ==
    /\ pc = "pitch_loop" /\ Len(audio_data) = 9000
    /\ segment_length = 2048 /\ hop_length = 1024 /\ Len(offsets) = 1

\* C25: every segment a windowed stage accumulates adds the segment (as
\* shifted, in the pitch stages) times the window, the window taken once, to
\* the sum and the window to the weights over the same range, whatever the
\* shift or speed factor drawn.
C25_WindowOnce ==
    [][offsets' # offsets /\ pc \in Loops
          /\ (result' # result \/ weights' # weights) =>
          LET at == IF pc = "speed_loop" THEN output_pos ELSE i
              segment == SubSeq(enhanced, i + 1, i + segment_length)
              piece == IF pc = "speed_loop" THEN segment
                       ELSE shifted_segment(segment, drawn')
          IN  /\ result' = AddAt(result, at,
                     [k \in 1..segment_length |-> FMul(piece[k], window[k])])
              /\ weights' = AddAt(weights, at, window)
      ]_vars

\* C26: in the output of a pitch stage every sample past the last processed
\* segment (all of them when no segment was processed) got nothing from the
\* loop: its sum is 0, its weight 0 and floored to 1.0, and the output
\* sample is 0 whatever the input sample was.
C26_TailIsZero ==
    [][pc' = "done" /\ pc \in PitchLoops =>
          LET covered == IF offsets = <<>> THEN 0
                         ELSE offsets[Len(offsets)] + segment_length
          IN  /\ Len(returned') = Len(audio_data)
              /\ \A k \in (covered + 1)..Len(audio_data) :
                    /\ result[k] = 0 /\ weights[k] = 0
                    /\ divisor'[k] = One
                    /\ returned'[k] = 0
      ]_vars

C26_Witness ==
    /\ pc = "done" /\ ~ raised /\ Len(audio_data) = 1030
    /\ calls[1].stage = "enhance_pitch_variation"
    /\ offsets[Len(offsets)] = 768
    /\ audio_data[1030] # 0 /\ returned[1030] = 0 /\ divisor[1030] = One
    /\ returned[1000] # 0

\* ------------------------------------------------- two calls, interleaved
\* What enhance_audio makes of a waveform of 256 to 1023 samples after
\* enhance_voice_quality has returned e2, when it runs alone, nothing raises
\* and the random source gives the draws d1 (add_breathiness) and d2
\* (add_natural_fluctuation).
AfterBands(e2, s, d1, d2) ==
    LET e3 == IF Get(s, "breathiness", 20) > 5
              THEN add_breathiness(e2, Get(s, "breathiness", 20), d1) ELSE e2
        e4 == add_natural_fluctuation(e3, Get(s, "fluctuation", 30), d2)
        e6 == IF Get(s, "speed_variation", 30) > 5
              THEN enhance_speed_variation(e4, Get(s, "speed_variation", 30))
              ELSE e4
    IN  normalize_audio(e6, TargetLevel)

\* A finished call has returned what it returns alone, for some draws of
\* the random source; a call that raised has returned its own argument.
AsAlone(frame, sr) ==
    frame.pc = "done" =>
        IF frame.raised \/ Len(frame.audio_data) = 0
        THEN frame.returned = frame.audio_data
        ELSE IF Len(frame.audio_data) < 256
        THEN frame.returned = normalize_audio(frame.audio_data, TargetLevel)
        ELSE LET s == frame.settings
                 e1 == enhance_spectrum(frame.audio_data,
                                        Get(s, "spectrum_enhance", 50))
                 e2 == enhance_voice_quality(e1, Get(s, "voice_quality", 50), sr)
             IN  \E d1 \in BreathDraws, d2 \in FluctuationDraws :
                    frame.returned = AfterBands(e2, s, d1, d2)

\* C27: two calls of enhance_audio on independent waveforms, interleaved in
\* any order on one AudioProcessor, share nothing but the random source: no
\* step writes self.sample_rate, a step of one call leaves the frame of the
\* other as it is, and each call returns what it returns when it runs alone
\* with the same draws.
C27_CallsIndependent ==
    /\ [][sample_rate' = sample_rate
            /\ (parked' # parked => parked' = Frame /\ Frame' = parked)]_vars
    /\ [](AsAlone(Frame, sample_rate) /\ AsAlone(parked, sample_rate))

C27_Witness ==
    /\ pc = "done" /\ ~ raised /\ parked.pc = "done" /\ ~ parked.raised
    /\ Len(audio_data) = 300 /\ Len(parked.audio_data) = 256
    /\ settings # parked.settings
    /\ Len(calls) = 7 /\ Len(parked.calls) = 5
    /\ returned # audio_data /\ parked.returned # parked.audio_data

\* ------------------------------------------- the buffer of the speed stage

\* C28 as stated: in adjust_speed_variation every speed factor used is
\* within [0.8, 1.2], the write cursor moves on by int(hop * factor) after
\* every segment, and the buffer of n + int(n * variation * 0.5) samples takes
\* every segment: cursor + L <= len(result) each time, no segment is left out.
C28_NoSegmentDropped ==
    [][offsets' # offsets /\ pc = "speed_loop" =>
          /\ speed_factor(drawn') >= 80 /\ speed_factor(drawn') <= 120
          /\ output_pos' = output_pos + (hop_length * speed_factor(drawn')) \div Hundred
          /\ Len(result) = Len(enhanced) + (Len(enhanced) * variation) \div (2 * Hundred)
          /\ output_pos + segment_length <= Len(result)
          /\ weights' = AddAt(weights, output_pos, window)
      ]_vars

\* C28, amended: every speed factor used is within [0.8, 1.2] and the write
\* cursor moves on by int(hop * factor) after every segment, written or not;
\* a segment is written when cursor + L <= len(result) and left out, with
\* nothing said, when it is not; the buffer of n + int(n * variation * 0.5)
\* samples takes every segment for every sequence of factors when the
\* variation is at least 0.4.
C28_CursorAndGuard ==
    [][offsets' # offsets /\ pc = "speed_loop" =>
          /\ speed_factor(drawn') >= 80 /\ speed_factor(drawn') <= 120
          /\ output_pos' = output_pos + (hop_length * speed_factor(drawn')) \div Hundred
          /\ Len(result) = Len(enhanced) + (Len(enhanced) * variation) \div (2 * Hundred)
          /\ IF output_pos + segment_length <= Len(result)
             THEN weights' = AddAt(weights, output_pos, window)
             ELSE result' = result /\ weights' = weights
          /\ variation >= 40 => output_pos + segment_length <= Len(result)
      ]_vars

C28_Witness ==
    /\ pc = "speed_loop" /\ Len(audio_data) = 37 /\ variation = 1
    /\ Len(offsets) = 2 /\ output_pos = 30 /\ drawn = "slower"
    /\ Len(result) = 37 /\ weights[19] # 0 /\ weights[21] = 0

\* ------------------------------------------------- the smoothed stages
\* C29: add_natural_fluctuation and add_breathiness return as many samples
\* as they were given, for every length from one sample on, the one sample
\* for which the smoothing window of 2 is longer than the waveform included.
C29_SmoothKeepsLength ==
    pc = "done" => ~ raised /\ Len(returned) = Len(audio_data)

\* ------------------------------------------------------- unity gain
\* C30: with every segment left as it is (a variation of 0, every shift
\* drawn is 0), enhance_pitch_variation gives back the input, up to the
\* rounding of the products and the quotient, at every index a processed
\* segment covers, the first sample and the samples at the segment edges
\* included.
C30_UnityGain ==
    [][pc' = "done" /\ pc = "pitch_loop" /\ variation = 0 /\ ~ raised' =>
          \A k \in 1..(offsets[Len(offsets)] + segment_length) :
              Abs(returned'[k] - audio_data[k]) <= 4 * Ulp(audio_data[k])
      ]_vars

====
